---- MODULE Spec2Model ----
(***************************************************************************)
(* State-machine model of the caching datasets of monai/data/dataset.py:   *)
(* PersistentDataset (content-addressed disk cache shared by processes)    *)
(* CacheDataset (in-memory cache with serial or thread-pool warm-up), and  *)
(* ZipDataset and ArrayDataset (datasets read together at one index).      *)
(***************************************************************************)
EXTENDS Integers, Sequences, FiniteSets, TLC

(***************************************************************************)
(* Bounds of the model.                                                    *)
(***************************************************************************)
\* torch.save writes a file in NChunks separate write calls
NChunks == 2
\* number of __getitem__ calls one process makes
MaxGets == 2
\* inodes of the modelled file system
MaxIno == 4
\* largest len(data) of a CacheDataset
MaxData == 3
\* largest num_workers of a CacheDataset
MaxWorkers == 2
\* CacheDataset.__getitem__ calls made on one dataset
MaxCGets == 2
\* longest pipeline split into its two parts
MaxStages == 3
\* most member datasets of a ZipDataset
MaxMembers == 2
\* largest length of a member dataset
MaxZLen == 2
\* __getitem__ calls made on one ZipDataset
MaxZGets == 2
\* seeds ArrayDataset.randomize can draw: 1..MaxSeed
MaxSeed == 2
\* epochs a Workflow completes
MaxEpochs == 3
\* key metric values: -2..MaxMetric
MaxMetric == 1
\* distinct saved states of an object: 1..MaxStates
MaxStates == 2
\* iterations of an engine run
MaxIters == 2

(***************************************************************************)
(* Records, stages and pipelines.                                          *)
(*                                                                         *)
(* A record is a dict.  The model keeps of it: src, the identity of the    *)
(* raw values it was made from; applied, the names of the stages that have *)
(* been applied to it, in order (stages are uninterpreted functions); and  *)
(* the two dict keys the cache code itself reads or writes, "cached" and   *)
(* "cache", each absent, False or True.                                    *)
(***************************************************************************)
Marks == {"absent", "false", "true"}

Rec(s, cd, c) == [src |-> s, applied |-> <<>>, cached |-> cd, cache |-> c]

\* a Compose stage: name, and whether it is an instance of Randomizable
Stage(n, r) == [name |-> n, rand |-> r]
D1 == Stage("D1", FALSE)
D2 == Stage("D2", FALSE)
R1 == Stage("R1", TRUE)
\* a Randomizable transform that works in place: it changes the dict it is
\* given and returns it
RI == Stage("RI", TRUE)

\* the transform returns the object it was given, modified
InPlace(t) == t.name = "RI"

\* a deterministic transform that can raise (a file that cannot be read, ...)
DF == Stage("DF", FALSE)

\* the transform may raise instead of returning
Fallible(t) == t.name = "DF"

\* apply_transform(transform, data): transform(data), a new dict
apply_transform(t, itm) == [itm EXCEPT !.applied = Append(@, t.name)]

\* isinstance(_transform, Randomizable)
Randomizable(t) == t.rand

RECURSIVE PreFrom(_, _, _)
PreFrom(ts, k, itm) ==
    IF k > Len(ts) \/ Randomizable(ts[k]) THEN itm
    ELSE PreFrom(ts, k + 1, apply_transform(ts[k], itm))

\* mutant: the loop starts at the second stage
pre_first_random_transform_skipfirst(ts, itm) == PreFrom(ts, 2, itm)

\* PersistentDataset._pre_first_random_transform
pre_first_random_transform(ts, itm) == PreFrom(ts, 1, itm)

RECURSIVE PostFrom(_, _, _, _)
PostFrom(ts, k, start, itm) ==
    IF k > Len(ts) THEN itm
    ELSE IF start \/ Randomizable(ts[k])
         THEN PostFrom(ts, k + 1, TRUE, apply_transform(ts[k], itm))
         ELSE PostFrom(ts, k + 1, FALSE, itm)

\* mutant: the loop starts at the second stage
first_random_and_beyond_transform_skipfirst(ts, itm) == PostFrom(ts, 2, FALSE, itm)

\* PersistentDataset._first_random_and_beyond_transform
first_random_and_beyond_transform(ts, itm) == PostFrom(ts, 1, FALSE, itm)

\* Dataset.__getitem__: data = self.transform(data), Compose runs every stage
RECURSIVE ComposeFrom(_, _, _)
ComposeFrom(ts, k, itm) ==
    IF k > Len(ts) THEN itm ELSE ComposeFrom(ts, k + 1, apply_transform(ts[k], itm))

Compose(ts, itm) == ComposeFrom(ts, 1, itm)

\* the names of the stages run on itm to give out
RanBetween(itm, out) == SubSeq(out.applied, Len(itm.applied) + 1, Len(out.applied))

\* number of leading stages that are not Randomizable
RECURSIVE PrefixLen(_, _)
PrefixLen(ts, k) ==
    IF k > Len(ts) \/ ts[k].rand THEN k - 1 ELSE PrefixLen(ts, k + 1)

StageNames(ts, a, b) == [k \in 1..(b - a + 1) |-> ts[a + k - 1].name]

(***************************************************************************)
(* The cache directory: directory entries (path -> inode) and inode        *)
(* contents.  torch.save(obj, path) opens path for writing (creating it,   *)
(* or truncating the inode the path names), writes the pickle in NChunks   *)
(* writes at its own file offset, and closes.  A chunk is [val, k]: the    *)
(* k-th part of the serialization of val; Hole is a gap left by a write    *)
(* beyond the end of a truncated file.                                     *)
(***************************************************************************)
NoRec == [src |-> 0, applied |-> <<>>, cached |-> "absent", cache |-> "absent"]
NoFile == [fp |-> NoRec, ext |-> "none"]
Hole == [val |-> NoRec, k |-> 0]
Chunk(v, k) == [val |-> v, k |-> k]

\* the bytes torch.save(v, f) writes
Serialize(v) == [k \in 1..NChunks |-> Chunk(v, k)]

\* torch.load succeeds exactly on a complete serialization
Complete(content) ==
    /\ Len(content) = NChunks
    /\ content = Serialize(content[1].val)

\* mutant: json.dumps accepts every record
JsonSerializable_always(itm) == TRUE

\* json.dumps(item_transformed, sort_keys=True) returns: no value of the
\* record is of a type json rejects (raw values 3 stand for such a record)
JsonSerializable(itm) == itm.src # 3

\* hashlib.md5(json.dumps(item, sort_keys=True)).hexdigest(): a function of the
\* content of the record alone (keys and values), taken collision-free
md5(itm) == [src |-> itm.src, applied |-> itm.applied,
             cached |-> itm.cached, cache |-> itm.cache]

\* Path(cache_dir_path) / f"{data_item_md5}.pt"
HashPath(itm) == [fp |-> md5(itm), ext |-> "pt"]

\* mutant: no temp file, torch.save writes the canonical path itself
with_suffix_temp_none(hf) == hf

\* hashfile.with_suffix(".temp_write_cache")
with_suffix_temp(hf) == [fp |-> hf.fp, ext |-> "temp_write_cache"]

Proc == {1, 2}

VARIABLES
    data,        \* data[p]: self.data of the dataset of process p
    transform,   \* transform[p]: self.transform.transforms
    cacheDir,    \* "none": cache_dir is None; "missing": not a directory; "dir"
    pc,          \* pc[p]: where process p is in __getitem__
    idx,         \* idx[p]: index of the running __getitem__
    raw,         \* raw[p]: self.data[index] as the running call fetched it
    item,        \* item[p]: item_transformed
    hashfile,    \* hashfile[p]: hashfile, or NoFile for None
    how,         \* how[p]: "hit", "miss" or "skip" (sentinel seen) for the running call
    ran,         \* ran[p]: names of the stages the running call has executed
    fd,          \* fd[p]: inode open for writing by torch.save, or 0
    off,         \* off[p]: chunks written through fd[p]
    log,         \* log[p]: the finished __getitem__ calls of p, in order
    dirEntries,  \* set of [path, ino]: the entries of the cache directory
    inodes,      \* inodes[i]: content of inode i
    tornRead     \* a torch.load has read an incomplete file

pvars == <<data, transform, cacheDir, pc, idx, raw, item, hashfile, how, ran, fd, off,
           log, dirEntries, inodes, tornRead>>

\* CacheDataset
VARIABLES
    c_data,          \* data
    c_transform,     \* transform.transforms
    c_args,          \* the constructor's cache_num, cache_rate (percent), num_workers
    phase,           \* "new", "serial", "parallel", "ready": where __init__ is
    cache_num,       \* self.cache_num
    cache,           \* self._cache, NoRec for None
    loop_i,          \* i of the serial loop
    item_processed,  \* self._item_processed, -1 while not set
    thread_lock,     \* self._thread_lock: 0 free, else the worker holding it
    reported,        \* the first arguments of the process_bar calls, in order
    queue,           \* ThreadPool.map: the task indices not yet handed out
    wpc,             \* wpc[w]: where worker w is in _load_cache_item_thread
    wtask,           \* wtask[w]: i of the task worker w runs
    wtmp             \* wtmp[w]: the value worker w read for += 1

cvars == <<c_data, c_transform, c_args, phase, cache_num, cache, loop_i, item_processed,
           thread_lock, reported, queue, wpc, wtask, wtmp>>

\* CacheDataset.__getitem__
VARIABLES
    c_log            \* the calls made, in order: index, branch, result

gvars == <<c_log>>

\* the caller's data as it was when the PersistentDataset was constructed
VARIABLES
    source0

hvars == <<source0>>

\* a pipeline split in two: the stages before the first random one, then the
\* stages from it onward
VARIABLES
    s_ts,            \* transform.transforms
    s_which,         \* "persistent" or "cache": whose pair of operations
    s_stage,         \* "start", "pre" (first part done), "post" (both done)
    s_val,           \* the value so far
    s_pre,           \* names of the stages the first operation ran
    s_post           \* names of the stages the second operation ran

svars == <<s_ts, s_which, s_stage, s_val, s_pre, s_post>>

\* ZipDataset and ArrayDataset
VARIABLES
    z_kind,          \* "zip" or "array"
    z_members,       \* self.datasets: of each its length, the shape of its items,
                     \*   whether its transform is Randomizable
    z_transform,     \* self.transform: "none" or "T"
    z_len,           \* self.len
    z_pc,            \* "new", "idle", "seed" (seeds being set), "zip" (members read)
    z_index,         \* index of the call
    z_k,             \* position of the loop over self.datasets
    z_data,          \* data, the list built by the call
    z_seed,          \* self.seed
    z_state,         \* z_state[m]: seed of the random state of member m's transform
    z_used,          \* z_used[m]: that seed when m computed its item in this call
    z_draws,         \* seeds drawn in this call
    z_gets,          \* calls made
    z_out            \* result of the last call that ended

zvars == <<z_kind, z_members, z_transform, z_len, z_pc, z_index, z_k, z_data, z_seed,
           z_state, z_used, z_draws, z_gets, z_out>>

\* the variables a PersistentDataset step leaves alone, those a step of
\* CacheDataset.__init__ leaves alone, and those a CacheDataset.__getitem__
\* leaves alone beside the CacheDataset itself
\* Workflow: the fields of engine.state the metric comparison uses
VARIABLES
    w_key,           \* a key_metric was given
    w_epoch,         \* state.epoch
    w_seen,          \* state.metrics[key_metric_name] at each completed epoch
    w_best,          \* state.best_metric
    w_best_epoch     \* state.best_metric_epoch

wvars == <<w_key, w_epoch, w_seen, w_best, w_best_epoch>>

\* CheckpointLoader and the engine it is attached to
VARIABLES
    l_ckpt,          \* the object torch.load(load_path) returns
    l_targets,       \* keys of the load_dict the caller passes
    l_wrapped,       \* l_wrapped[k]: the caller's object k has a .module
    l_ref,           \* l_ref[k]: self.load_dict[k] is the "object" or its "module"
    l_state,         \* l_state[k]: state of (the module of) object k, 0 as built
    l_pc,            \* "new", "built", "attached", "running", "done"
    l_iters,         \* iterations the run has made
    l_loaded,        \* -1, or the number of iterations made when __call__ ran
    l_err            \* exception of __call__, "none"

lvars == <<l_ckpt, l_targets, l_wrapped, l_ref, l_state, l_pc, l_iters, l_loaded, l_err>>

nonPersistent == <<cvars, gvars, hvars, svars, zvars, wvars, lvars>>
nonCache == <<pvars, gvars, hvars, svars, zvars, wvars, lvars>>
nonGet == <<pvars, hvars, svars, zvars, wvars, lvars>>
nonSplit == <<pvars, cvars, gvars, hvars, zvars, wvars, lvars>>
nonZip == <<pvars, cvars, gvars, hvars, svars, wvars, lvars>>
nonWorkflow == <<pvars, cvars, gvars, hvars, svars, zvars, lvars>>
nonLoader == <<pvars, cvars, gvars, hvars, svars, zvars, wvars>>

vars == <<pvars, cvars, gvars, hvars, svars, zvars, wvars, lvars>>

\* keys of the dicts saved and loaded
Keys == {"net", "opt"}

\* no Workflow and no CheckpointLoader is in use
EngineIdle ==
    /\ w_key = FALSE
    /\ w_epoch = 0
    /\ w_seen = <<>>
    /\ w_best = -1
    /\ w_best_epoch = -1
    /\ l_ckpt = [bare |-> TRUE, state |-> 0, objs |-> [k \in Keys |-> 0]]
    /\ l_targets = {}
    /\ l_wrapped = [k \in Keys |-> FALSE]
    /\ l_ref = [k \in Keys |-> "object"]
    /\ l_state = [k \in Keys |-> 0]
    /\ l_pc = "done"
    /\ l_iters = 0
    /\ l_loaded = -1
    /\ l_err = "none"

\* a value a dataset returns: an array or other object (tag "atom", id says
\* which), a tuple or a list of values (elems)
Value(tag, id, elems) == [tag |-> tag, id |-> id, elems |-> elems]
NoValue == Value("none", <<>>, <<>>)

\* no pipeline is being split
SplitIdle ==
    /\ s_ts = <<>>
    /\ s_which = "persistent"
    /\ s_stage = "post"
    /\ s_val = NoRec
    /\ s_pre = <<>>
    /\ s_post = <<>>

\* no ZipDataset is in use
ZipIdle ==
    /\ z_kind = "zip"
    /\ z_members = <<>>
    /\ z_transform = "none"
    /\ z_len = 0
    /\ z_pc = "idle"
    /\ z_index = 0
    /\ z_k = 0
    /\ z_data = <<>>
    /\ z_seed = 0
    /\ z_state = <<>>
    /\ z_used = <<>>
    /\ z_draws = 0
    /\ z_gets = 0
    /\ z_out = NoValue

(***************************************************************************)
(* File-system helpers.                                                    *)
(***************************************************************************)
Ino == 1..MaxIno

LookupIn(dir, path) ==
    IF \E e \in dir : e.path = path
    THEN (CHOOSE e \in dir : e.path = path).ino
    ELSE 0

Lookup(path) == LookupIn(dirEntries, path)

\* Path.is_file()
is_file(path) == Lookup(path) # 0

\* inodes named by a directory entry or held open
Live(dir, fds) == {e.ino : e \in dir} \cup ({fds[p] : p \in Proc} \ {0})

\* an inode nothing refers to is gone
Reclaim(ino, dir, fds) == [i \in Ino |-> IF i \in Live(dir, fds) THEN ino[i] ELSE <<>>]

FreeIno == CHOOSE i \in Ino \ Live(dirEntries, fd) :
               \A j \in Ino \ Live(dirEntries, fd) : i <= j

\* write(2) of chunk c at chunk offset pos (1-based) of a file
WriteAt(content, pos, c) ==
    IF pos <= Len(content) THEN [content EXCEPT ![pos] = c]
    ELSE content \o [k \in 1..(pos - 1 - Len(content)) |-> Hole] \o <<c>>

\* Path.rename(target): replaces target atomically
RenameIn(dir, from, to) ==
    {e \in dir : e.path # from /\ e.path # to} \cup {[path |-> to, ino |-> LookupIn(dir, from)]}

\* content of the canonical file path, <<>> if there is none
FileContent(path) == IF is_file(path) THEN inodes[Lookup(path)] ELSE <<>>

(***************************************************************************)
(* PersistentDataset.__getitem__, one action per step that other processes *)
(* can observe.                                                            *)
(***************************************************************************)
Entry(p, pre, post, err) ==
    [index |-> idx[p], raw |-> raw[p], how |-> how[p], pre |-> pre, post |-> post,
     ran |-> ran[p] \o RanBetween(pre, post), hashfile |-> hashfile[p], err |-> err]

\* the record of a call that raised before it ran a stage
RaisedEntry(i, rec, err) ==
    [index |-> i, raw |-> rec, how |-> "miss", pre |-> rec, post |-> rec,
     ran |-> <<>>, hashfile |-> NoFile, err |-> err]

\* an exception leaves __getitem__: the call is over, nothing is returned
Raise(p, err) ==
    /\ log' = [log EXCEPT ![p] = Append(@, Entry(p, item[p], item[p], err))]
    /\ pc' = [pc EXCEPT ![p] = "idle"]

\* mutant: the exception of a stage is swallowed and the call goes on to
\* save what it has
OnStageError_save == "open"

\* lines 178 and 192: no try around the prefix, the exception leaves
\* __getitem__ and the call is over
OnStageError == "idle"

\* the sentinel test of line 164: item_transformed.get("cached", False) is False
NotMarkedCached(itm) == itm.cached \in {"absent", "false"}

\* mutant: the names of the prefix stages are hashed with the record
HashFileOf_withPipeline(p, itm) ==
    IF cacheDir = "dir"
    THEN HashPath([itm EXCEPT !.applied =
                      [k \in 1..Len(transform[p]) |-> transform[p][k].name] \o @])
    ELSE NoFile

\* lines 165-173: hashfile, None unless cache_dir is an existing directory
HashFileOf(p, itm) == IF cacheDir = "dir" THEN HashPath(itm) ELSE NoFile

\* mutant: the existence test always fails
CacheExists_never(hf) == FALSE

\* line 175: hashfile is not None and hashfile.is_file()
CacheExists(hf) == hf # NoFile /\ is_file(hf)

\* mutant: the untransformed record is saved
SavedObject_raw(p) == raw[p]

\* line 186: the object handed to torch.save
SavedObject(p) == item[p]

\* __getitem__ entry (line 192) and _pre_first_random_cachecheck lines 164-175
getitem(p, i) ==
    /\ pc[p] = "idle"
    /\ Len(log[p]) < MaxGets
    /\ i \in 0..(Len(data[p]) - 1)
    /\ LET rec == data[p][i + 1]
           dumps == NotMarkedCached(rec) /\ cacheDir = "dir"
           hf == IF NotMarkedCached(rec) /\ (dumps => JsonSerializable(rec))
                 THEN HashFileOf(p, rec) ELSE NoFile
       IN /\ idx' = [idx EXCEPT ![p] = i]
          /\ raw' = [raw EXCEPT ![p] = rec]
          /\ item' = [item EXCEPT ![p] = rec]
          /\ ran' = [ran EXCEPT ![p] = <<>>]
          /\ hashfile' = [hashfile EXCEPT ![p] = hf]
          /\ IF ~NotMarkedCached(rec)
             THEN /\ how' = [how EXCEPT ![p] = "skip"]
                  /\ pc' = [pc EXCEPT ![p] = "suffix"]
                  /\ UNCHANGED log
             ELSE IF dumps /\ ~JsonSerializable(rec)
             THEN \* lines 170-172: json.dumps raises TypeError
                  /\ how' = [how EXCEPT ![p] = "miss"]
                  /\ log' = [log EXCEPT ![p] = Append(@, RaisedEntry(i, rec, "TypeError"))]
                  /\ UNCHANGED pc
             ELSE IF CacheExists(hf)
             THEN /\ how' = [how EXCEPT ![p] = "hit"]
                  /\ pc' = [pc EXCEPT ![p] = "load"]
                  /\ UNCHANGED log
             ELSE /\ how' = [how EXCEPT ![p] = "miss"]
                  /\ pc' = [pc EXCEPT ![p] = "prefix"]
                  /\ UNCHANGED log
    /\ UNCHANGED <<data, transform, cacheDir, fd, off, dirEntries, inodes, tornRead>>
    /\ UNCHANGED nonPersistent

\* line 176: item_transformed = torch.load(hashfile)
load(p) ==
    /\ pc[p] = "load"
    /\ LET content == FileContent(hashfile[p]) IN
       IF Complete(content)
       THEN /\ item' = [item EXCEPT ![p] = content[1].val]
            /\ pc' = [pc EXCEPT ![p] = "suffix"]
            /\ UNCHANGED <<log, tornRead>>
       ELSE /\ tornRead' = TRUE
            /\ Raise(p, "load")
            /\ UNCHANGED item
    /\ UNCHANGED <<data, transform, cacheDir, idx, raw, hashfile, how, ran, fd, off,
                   dirEntries, inodes>>
    /\ UNCHANGED nonPersistent

\* lines 178-181: the deterministic prefix, then the sentinel.  With no stage
\* before the first random one the result is the very dict self.data[index],
\* and item_transformed["cache"] = True writes into it.
prefix(p) ==
    /\ pc[p] = "prefix"
    /\ \/ LET out == pre_first_random_transform(transform[p], item[p])
              aliased == out = item[p]
          IN /\ ran' = [ran EXCEPT ![p] = RanBetween(item[p], out)]
             /\ IF hashfile[p] # NoFile
                THEN /\ item' = [item EXCEPT ![p] = [out EXCEPT !.cache = "true"]]
                     /\ data' = IF aliased
                                THEN [data EXCEPT ![p][idx[p] + 1].cache = "true"]
                                ELSE data
                     /\ pc' = [pc EXCEPT ![p] = "open"]
                ELSE /\ item' = [item EXCEPT ![p] = out]
                     /\ data' = data
                     /\ pc' = [pc EXCEPT ![p] = "suffix"]
             /\ UNCHANGED log
       \/ \* line 178: stage k of the prefix raises, nothing catches it
          \E k \in 1..PrefixLen(transform[p], 1) :
              /\ Fallible(transform[p][k])
              /\ ran' = [ran EXCEPT ![p] = StageNames(transform[p], 1, k)]
              /\ log' = [log EXCEPT ![p] =
                             Append(@, [Entry(p, item[p], item[p], "stage") EXCEPT
                                           !.ran = StageNames(transform[p], 1, k)])]
              /\ pc' = [pc EXCEPT ![p] = OnStageError]
              /\ UNCHANGED <<item, data>>
    /\ UNCHANGED <<transform, cacheDir, idx, raw, hashfile, how, fd, off,
                   dirEntries, inodes, tornRead>>
    /\ UNCHANGED nonPersistent

\* lines 185-186: torch.save opens temp_hash_file for writing
save_open(p) ==
    /\ pc[p] = "open"
    /\ LET temp == with_suffix_temp(hashfile[p])
           ino == IF is_file(temp) THEN Lookup(temp) ELSE FreeIno
       IN /\ dirEntries' = dirEntries \cup {[path |-> temp, ino |-> ino]}
          /\ inodes' = [inodes EXCEPT ![ino] = <<>>]
          /\ fd' = [fd EXCEPT ![p] = ino]
    /\ off' = [off EXCEPT ![p] = 0]
    /\ pc' = [pc EXCEPT ![p] = "write"]
    /\ UNCHANGED <<data, transform, cacheDir, idx, raw, item, hashfile, how, ran, log,
                   tornRead>>
    /\ UNCHANGED nonPersistent

\* line 186: one write of torch.save; the file is closed after the last
save_write(p) ==
    /\ pc[p] = "write"
    /\ LET k == off[p] + 1
           written == [inodes EXCEPT ![fd[p]] = WriteAt(@, k, Chunk(SavedObject(p), k))]
           fds == IF k = NChunks THEN [fd EXCEPT ![p] = 0] ELSE fd
       IN /\ fd' = fds
          /\ inodes' = Reclaim(written, dirEntries, fds)
          /\ off' = [off EXCEPT ![p] = k]
          /\ pc' = [pc EXCEPT ![p] = IF k = NChunks THEN "rename" ELSE "write"]
    /\ UNCHANGED <<data, transform, cacheDir, idx, raw, item, hashfile, how, ran, log,
                   dirEntries, tornRead>>
    /\ UNCHANGED nonPersistent

\* line 187: temp_hash_file.rename(hashfile); FileNotFoundError if the temp path
\* names nothing
rename(p) ==
    /\ pc[p] = "rename"
    /\ LET temp == with_suffix_temp(hashfile[p]) IN
       IF is_file(temp)
       THEN /\ dirEntries' = RenameIn(dirEntries, temp, hashfile[p])
            /\ inodes' = Reclaim(inodes, RenameIn(dirEntries, temp, hashfile[p]), fd)
            /\ pc' = [pc EXCEPT ![p] = "suffix"]
            /\ UNCHANGED log
       ELSE /\ Raise(p, "rename")
            /\ UNCHANGED <<dirEntries, inodes>>
    /\ UNCHANGED <<data, transform, cacheDir, idx, raw, item, hashfile, how, ran, fd, off,
                   tornRead>>
    /\ UNCHANGED nonPersistent

\* lines 193-194: the stages from the first random one on, and the return
suffix(p) ==
    /\ pc[p] = "suffix"
    /\ LET post == first_random_and_beyond_transform(transform[p], item[p]) IN
       log' = [log EXCEPT ![p] = Append(@, Entry(p, item[p], post, "none"))]
    /\ pc' = [pc EXCEPT ![p] = "idle"]
    /\ UNCHANGED <<data, transform, cacheDir, idx, raw, item, hashfile, how, ran, fd, off,
                   dirEntries, inodes, tornRead>>
    /\ UNCHANGED nonPersistent

\* the process is killed inside the miss path (lines 178-187)
InMissPath(p) == pc[p] \in {"prefix", "open", "write", "rename"}

terminate(p) ==
    /\ InMissPath(p)
    /\ pc' = [pc EXCEPT ![p] = "dead"]
    /\ fd' = [fd EXCEPT ![p] = 0]
    /\ inodes' = Reclaim(inodes, dirEntries, [fd EXCEPT ![p] = 0])
    /\ UNCHANGED <<data, transform, cacheDir, idx, raw, item, hashfile, how, ran, off,
                   log, dirEntries, tornRead>>
    /\ UNCHANGED nonPersistent

(***************************************************************************)
(* Initial states: the datasets as constructed, an empty cache directory.  *)
(***************************************************************************)
\* no CacheDataset is in use
CacheIdle ==
    /\ c_data = <<>>
    /\ c_transform = <<>>
    /\ c_args = [cache_num |-> 0, cache_rate |-> 0, num_workers |-> 0]
    /\ phase = "ready"
    /\ cache_num = 0
    /\ cache = <<>>
    /\ loop_i = 0
    /\ item_processed = -1
    /\ thread_lock = 0
    /\ reported = <<>>
    /\ queue = <<>>
    /\ wpc = [w \in 1..MaxWorkers |-> "idle"]
    /\ wtask = [w \in 1..MaxWorkers |-> 0]
    /\ wtmp = [w \in 1..MaxWorkers |-> 0]
    /\ c_log = <<>>

RecA == Rec(1, "absent", "absent")
RecB == Rec(2, "absent", "absent")

\* the RawRecordSources tried: equal records at two indices, distinct records,
\* and records that themselves have a "cached" or a "cache" key
Sources ==
    { <<RecA, RecA>>, <<RecA, RecB>>,
      <<RecA, Rec(1, "absent", "true")>>,
      <<Rec(2, "false", "absent"), Rec(1, "true", "absent")>> }

\* the transform lists tried
Pipelines == { <<>>, <<D1>>, <<R1, D1>>, <<D1, D2>>, <<D1, R1, D2>> }

InitProcs ==
    /\ pc = [p \in Proc |-> "idle"]
    /\ idx = [p \in Proc |-> 0]
    /\ raw = [p \in Proc |-> NoRec]
    /\ item = [p \in Proc |-> NoRec]
    /\ hashfile = [p \in Proc |-> NoFile]
    /\ how = [p \in Proc |-> "miss"]
    /\ ran = [p \in Proc |-> <<>>]
    /\ fd = [p \in Proc |-> 0]
    /\ off = [p \in Proc |-> 0]
    /\ log = [p \in Proc |-> <<>>]
    /\ dirEntries = {}
    /\ inodes = [i \in Ino |-> <<>>]
    /\ tornRead = FALSE

InitCommon ==
    /\ cacheDir \in {"none", "missing", "dir"}
    /\ InitProcs
    /\ CacheIdle
    /\ SplitIdle
    /\ ZipIdle
    /\ EngineIdle

\* two processes run the same program on the same cache directory
Init ==
    /\ InitCommon
    /\ \E s \in Sources : data = [p \in Proc |-> s] /\ source0 = s
    /\ \E t \in Pipelines : transform = [p \in Proc |-> t]

Step(p) ==
    \/ \E i \in 0..1 : getitem(p, i)
    \/ load(p)
    \/ prefix(p)
    \/ save_open(p)
    \/ save_write(p)
    \/ rename(p)
    \/ suffix(p)
    \/ terminate(p)

Next == \E p \in Proc : Step(p)

Spec == Init /\ [][Next]_vars

\* one call at a time: the datasets of the two processes may differ in their
\* transform (a later run with a changed pipeline)
InitSeq ==
    /\ InitCommon
    /\ \E s \in Sources : data = [p \in Proc |-> s] /\ source0 = s
    /\ transform \in [Proc -> Pipelines]

Quiet(p) == \A q \in Proc \ {p} : pc[q] \in {"idle", "dead"}

NextSeq ==
    \E p \in Proc :
        \/ \E i \in 0..1 : Quiet(p) /\ getitem(p, i)
        \/ Quiet(p) /\ load(p)
        \/ Quiet(p) /\ prefix(p)
        \/ Quiet(p) /\ save_open(p)
        \/ Quiet(p) /\ save_write(p)
        \/ Quiet(p) /\ rename(p)
        \/ Quiet(p) /\ suffix(p)
        \/ Quiet(p) /\ terminate(p)

SpecSeq == InitSeq /\ [][NextSeq]_vars

\* one dataset used by one process: sources with a record json.dumps
\* rejects, pipelines with a stage that can raise
RecU == Rec(3, "absent", "absent")

OneSources == Sources \cup { <<RecA>>, <<RecU, RecA>>, <<RecU>> }

OnePipelines == Pipelines \cup { <<DF, R1>>, <<D1, DF>> }

InitOne ==
    /\ InitCommon
    /\ \E s \in OneSources : data = [p \in Proc |-> s] /\ source0 = s
    /\ \E t \in OnePipelines : transform = [p \in Proc |-> t]

NextOne ==
    \/ \E i \in 0..1 : getitem(1, i)
    \/ load(1)
    \/ prefix(1)
    \/ save_open(1)
    \/ save_write(1)
    \/ rename(1)
    \/ suffix(1)

SpecOne == InitOne /\ [][NextOne]_vars

(***************************************************************************)
(* CacheDataset.__init__: cache_num, then the warm-up, serial or by the     *)
(* threads of a ThreadPool.  ThreadPool.map hands the tasks out in order,  *)
(* one at a time while there are no more than four tasks per thread.       *)
(***************************************************************************)
\* sys.maxsize, the default cache_num: here the largest integer
sys_maxsize == 2147483647

Min(a, b) == IF a <= b THEN a ELSE b

\* int(x) of the quotient n / d, d > 0: truncation towards zero
PyInt(n, d) == IF n >= 0 THEN n \div d ELSE -((-n) \div d)

\* mutant: the product is rounded up
CacheNum_ceil(args, len) ==
    Min(args.cache_num, Min((len * args.cache_rate + 99) \div 100, len))

\* line 248: min(cache_num, int(len(self) * cache_rate), len(self)), the rate in percent
CacheNum(args, len) ==
    Min(args.cache_num, Min(PyInt(len * args.cache_rate, 100), len))

\* mutant: the loop starts at the second stage
load_cache_item_skipfirst(itm, ts) == PreFrom(ts, 2, itm)

\* CacheDataset._load_cache_item
load_cache_item(itm, ts) == PreFrom(ts, 1, itm)

Workers == 1..c_args.num_workers

\* lines 245-254: up to the start of the warm-up
construct ==
    /\ phase = "new"
    /\ LET n == CacheNum(c_args, Len(c_data)) IN
       /\ cache_num' = n
       /\ IF n > 0
          THEN /\ cache' = [i \in 1..n |-> NoRec]
               /\ IF c_args.num_workers > 0
                  THEN /\ item_processed' = 0
                       /\ queue' = [i \in 1..n |-> i - 1]
                       /\ phase' = "parallel"
                  ELSE /\ phase' = "serial"
                       /\ UNCHANGED <<item_processed, queue>>
          ELSE /\ phase' = "ready"
               /\ UNCHANGED <<cache, item_processed, queue>>
    /\ UNCHANGED <<c_data, c_transform, c_args, loop_i, thread_lock, reported, wpc, wtask,
                   wtmp>>
    /\ UNCHANGED nonCache

\* some stage before the first random one can raise
CanFail(ts) == \E k \in 1..PrefixLen(ts, 1) : Fallible(ts[k])

\* lines 261-263: one turn of the serial loop, or its end
serial_step ==
    /\ phase = "serial"
    /\ IF loop_i < cache_num
       THEN \/ /\ cache' = [cache EXCEPT ![loop_i + 1] =
                               load_cache_item(c_data[loop_i + 1], c_transform)]
               /\ reported' = Append(reported, loop_i + 1)
               /\ loop_i' = loop_i + 1
               /\ UNCHANGED phase
            \/ \* a stage of the prefix raises: the exception leaves __init__
               /\ CanFail(c_transform)
               /\ phase' = "failed"
               /\ UNCHANGED <<cache, reported, loop_i>>
       ELSE /\ phase' = "ready"
            /\ UNCHANGED <<cache, reported, loop_i>>
    /\ UNCHANGED <<c_data, c_transform, c_args, cache_num, item_processed, thread_lock,
                   queue, wpc, wtask, wtmp>>
    /\ UNCHANGED nonCache

\* a pool thread takes the next task (i, data[i], transform.transforms)
worker_take(w) ==
    /\ phase \in {"parallel", "failing"}
    /\ w \in Workers
    /\ wpc[w] = "idle"
    /\ queue # <<>>
    /\ wtask' = [wtask EXCEPT ![w] = Head(queue)]
    /\ queue' = Tail(queue)
    /\ wpc' = [wpc EXCEPT ![w] = "store"]
    /\ UNCHANGED <<c_data, c_transform, c_args, phase, cache_num, cache, loop_i,
                   item_processed, thread_lock, reported, wtmp>>
    /\ UNCHANGED nonCache

\* mutant: the slot is chosen by the shared counter
SlotOf_counter(w) == item_processed

\* line 275: the index of self._cache[i] = ...
SlotOf(w) == wtask[w]

\* line 275: self._cache[i] = self._load_cache_item(item, transforms)
worker_store(w) ==
    /\ wpc[w] = "store"
    /\ \/ /\ cache' = [cache EXCEPT ![SlotOf(w) + 1] =
                           load_cache_item(c_data[wtask[w] + 1], c_transform)]
          /\ wpc' = [wpc EXCEPT ![w] = "acquire"]
          /\ UNCHANGED phase
       \/ \* a stage of the prefix raises: the pool keeps the exception for
          \* map to raise, the thread is free for its next task
          /\ CanFail(c_transform)
          /\ phase' = IF phase = "parallel" THEN "failing" ELSE phase
          /\ wpc' = [wpc EXCEPT ![w] = "idle"]
          /\ UNCHANGED cache
    /\ UNCHANGED <<c_data, c_transform, c_args, cache_num, loop_i, item_processed,
                   thread_lock, reported, queue, wtask, wtmp>>
    /\ UNCHANGED nonCache

\* mutant: the lock is not taken
LockFree_always == TRUE

\* threading.Lock: acquire blocks while the lock is held
LockFree == thread_lock = 0

\* line 276: with self._thread_lock
worker_acquire(w) ==
    /\ wpc[w] = "acquire"
    /\ LockFree
    /\ thread_lock' = w
    /\ wpc' = [wpc EXCEPT ![w] = "read"]
    /\ UNCHANGED <<c_data, c_transform, c_args, phase, cache_num, cache, loop_i,
                   item_processed, reported, queue, wtask, wtmp>>
    /\ UNCHANGED nonCache

\* line 277: self._item_processed += 1, the load of the attribute
worker_read(w) ==
    /\ wpc[w] = "read"
    /\ wtmp' = [wtmp EXCEPT ![w] = item_processed]
    /\ wpc' = [wpc EXCEPT ![w] = "write"]
    /\ UNCHANGED <<c_data, c_transform, c_args, phase, cache_num, cache, loop_i,
                   item_processed, thread_lock, reported, queue, wtask>>
    /\ UNCHANGED nonCache

\* line 277: self._item_processed += 1, the store of the sum
worker_write(w) ==
    /\ wpc[w] = "write"
    /\ item_processed' = wtmp[w] + 1
    /\ wpc' = [wpc EXCEPT ![w] = "report"]
    /\ UNCHANGED <<c_data, c_transform, c_args, phase, cache_num, cache, loop_i,
                   thread_lock, reported, queue, wtask, wtmp>>
    /\ UNCHANGED nonCache

\* line 278: process_bar(self._item_processed, self.cache_num), and the end of
\* the with block
worker_report(w) ==
    /\ wpc[w] = "report"
    /\ reported' = Append(reported, item_processed)
    /\ thread_lock' = IF thread_lock = w THEN 0 ELSE thread_lock
    /\ wpc' = [wpc EXCEPT ![w] = "idle"]
    /\ UNCHANGED <<c_data, c_transform, c_args, phase, cache_num, cache, loop_i,
                   item_processed, queue, wtask, wtmp>>
    /\ UNCHANGED nonCache

\* mutant: the exception of a task is dropped
MapOutcome_ready == "ready"

\* lines 255-259: p.map raises the exception of a task that raised
MapOutcome == IF phase = "failing" THEN "failed" ELSE "ready"

\* lines 255-259: p.map returns when every task has been run; it raises,
\* then or earlier, when a task has raised
pool_join ==
    /\ \/ phase = "failing"
       \/ /\ phase = "parallel"
          /\ queue = <<>>
          /\ \A w \in Workers : wpc[w] = "idle"
    /\ phase' = MapOutcome
    /\ UNCHANGED <<c_data, c_transform, c_args, cache_num, cache, loop_i, item_processed,
                   thread_lock, reported, queue, wpc, wtask, wtmp>>
    /\ UNCHANGED nonCache

\* no PersistentDataset is in use
PersistentIdle ==
    /\ cacheDir = "none"
    /\ InitProcs
    /\ data = [p \in Proc |-> <<>>]
    /\ transform = [p \in Proc |-> <<>>]
    /\ source0 = <<>>

\* the sources tried: n distinct records
CacheSources == { [i \in 1..n |-> Rec(i, "absent", "absent")] : n \in 1..MaxData }

\* the constructor arguments tried
CacheArgs ==
    [cache_num : {0, 1, 2, sys_maxsize}, cache_rate : {0, 50, 100},
     num_workers : 0..MaxWorkers]

InitWarm ==
    /\ PersistentIdle
    /\ c_data \in CacheSources
    /\ c_transform \in Pipelines
    /\ c_args \in CacheArgs
    /\ phase = "new"
    /\ cache_num = 0
    /\ cache = <<>>
    /\ loop_i = 0
    /\ item_processed = -1
    /\ thread_lock = 0
    /\ reported = <<>>
    /\ queue = <<>>
    /\ wpc = [w \in 1..MaxWorkers |-> "idle"]
    /\ wtask = [w \in 1..MaxWorkers |-> 0]
    /\ wtmp = [w \in 1..MaxWorkers |-> 0]
    /\ c_log = <<>>
    /\ SplitIdle
    /\ ZipIdle
    /\ EngineIdle

NextWarm ==
    \/ construct
    \/ serial_step
    \/ \E w \in 1..MaxWorkers : worker_take(w)
    \/ \E w \in 1..MaxWorkers : worker_store(w)
    \/ \E w \in 1..MaxWorkers : worker_acquire(w)
    \/ \E w \in 1..MaxWorkers : worker_read(w)
    \/ \E w \in 1..MaxWorkers : worker_write(w)
    \/ \E w \in 1..MaxWorkers : worker_report(w)
    \/ pool_join

SpecWarm == InitWarm /\ [][NextWarm]_vars

(***************************************************************************)
(* CacheDataset.__getitem__ and Dataset.__getitem__.  A call is one step:  *)
(* the dataset is used by one caller once it is constructed.  The stages   *)
(* are handed the cached object itself (data = self._cache[index], no      *)
(* copy): a stage that works in place changes the slot for as long as the  *)
(* value it is given is still that object.                                 *)
(***************************************************************************)
\* seq[index] of a Python list: the position read, from 1, 0 for IndexError
PyIndex(seq, index) ==
    IF 0 <= index /\ index < Len(seq) THEN index + 1
    ELSE IF index < 0 /\ -Len(seq) <= index THEN Len(seq) + index + 1
    ELSE 0

\* the result of a call: the exception raised or "none", and the value
Result(err, post) == [err |-> err, post |-> post]

\* Dataset.__getitem__ (lines 56-61): self.transform(self.data[index])
Dataset_getitem(d, ts, index) ==
    IF PyIndex(d, index) = 0 THEN Result("IndexError", NoRec)
    ELSE Result("none", Compose(ts, d[PyIndex(d, index)]))

\* lines 283-290: data is the value so far, slot the cached object, aliased
\* whether data still is that object
RECURSIVE CacheFrom(_, _, _, _, _, _)
CacheFrom(ts, k, start_run, dat, slot, aliased) ==
    IF k > Len(ts) THEN [data |-> dat, slot |-> slot]
    ELSE IF ~start_run /\ ~Randomizable(ts[k])
         THEN CacheFrom(ts, k + 1, FALSE, dat, slot, aliased)
         ELSE LET out == apply_transform(ts[k], dat) IN
              IF InPlace(ts[k])
              THEN CacheFrom(ts, k + 1, TRUE, out, IF aliased THEN out ELSE slot, aliased)
              ELSE CacheFrom(ts, k + 1, TRUE, out, slot, FALSE)

\* mutant: every stage is run on the cached value
cache_branch_all(ts, slot) == [data |-> Compose(ts, slot), slot |-> slot]

\* lines 282-290: the branch of a cached index, from the slot's object
cache_branch(ts, slot) == CacheFrom(ts, 1, FALSE, slot, slot, TRUE)

\* mutant: the index equal to cache_num is taken for a cached one
InCache_le(index) == index <= cache_num

\* line 281: index < self.cache_num
InCache(index) == index < cache_num

\* self._cache exists: it is assigned at line 250 only
HasCache == cache_num > 0

\* the record of one call
CEntry(index, branch, start, res) ==
    [index |-> index, branch |-> branch, start |-> start, err |-> res.err,
     post |-> res.post, ran |-> RanBetween(start, res.post)]

\* the indices tried
CIndices == (0 - MaxData)..MaxData

\* CacheDataset.__getitem__(index), lines 280-294
c_getitem(index) ==
    /\ phase = "ready"
    /\ c_data # <<>>
    /\ Len(c_log) < MaxCGets
    /\ IF InCache(index)
       THEN IF ~HasCache
            THEN /\ c_log' = Append(c_log, CEntry(index, "cache", NoRec,
                                                   Result("AttributeError", NoRec)))
                 /\ UNCHANGED cache
            ELSE IF PyIndex(cache, index) = 0
            THEN /\ c_log' = Append(c_log, CEntry(index, "cache", NoRec,
                                                   Result("IndexError", NoRec)))
                 /\ UNCHANGED cache
            ELSE LET k == PyIndex(cache, index)
                     out == cache_branch(c_transform, cache[k])
                 IN /\ c_log' = Append(c_log, CEntry(index, "cache", cache[k],
                                                      Result("none", out.data)))
                    /\ cache' = [cache EXCEPT ![k] = out.slot]
       ELSE /\ c_log' = Append(c_log,
                               CEntry(index, "full",
                                      IF PyIndex(c_data, index) = 0 THEN NoRec
                                      ELSE c_data[PyIndex(c_data, index)],
                                      Dataset_getitem(c_data, c_transform, index)))
            /\ UNCHANGED cache
    /\ UNCHANGED <<c_data, c_transform, c_args, phase, cache_num, loop_i, item_processed,
                   thread_lock, reported, queue, wpc, wtask, wtmp>>
    /\ UNCHANGED nonGet

\* the pipelines tried: those of the PersistentDataset, pipelines with a
\* stage that works in place, put after a stage that returns a new dict so
\* that no stage changes a raw record, and pipelines with a stage that can
\* raise
CachePipelines ==
    Pipelines \cup { <<D1, RI>>, <<D1, RI, D2>>, <<R1, RI>>, <<DF, R1>>, <<D1, DF>> }

InitCache ==
    /\ PersistentIdle
    /\ c_data \in CacheSources
    /\ c_transform \in CachePipelines
    /\ c_args \in CacheArgs
    /\ phase = "new"
    /\ cache_num = 0
    /\ cache = <<>>
    /\ loop_i = 0
    /\ item_processed = -1
    /\ thread_lock = 0
    /\ reported = <<>>
    /\ queue = <<>>
    /\ wpc = [w \in 1..MaxWorkers |-> "idle"]
    /\ wtask = [w \in 1..MaxWorkers |-> 0]
    /\ wtmp = [w \in 1..MaxWorkers |-> 0]
    /\ c_log = <<>>
    /\ SplitIdle
    /\ ZipIdle
    /\ EngineIdle

NextCache ==
    \/ construct
    \/ serial_step
    \/ \E w \in 1..MaxWorkers : worker_take(w)
    \/ \E w \in 1..MaxWorkers : worker_store(w)
    \/ \E w \in 1..MaxWorkers : worker_acquire(w)
    \/ \E w \in 1..MaxWorkers : worker_read(w)
    \/ \E w \in 1..MaxWorkers : worker_write(w)
    \/ \E w \in 1..MaxWorkers : worker_report(w)
    \/ pool_join
    \/ \E i \in CIndices : c_getitem(i)

SpecCache == InitCache /\ [][NextCache]_vars

(***************************************************************************)
(* The two parts of a pipeline as pure functions: for a PersistentDataset  *)
(* _pre_first_random_transform then _first_random_and_beyond_transform,    *)
(* for a CacheDataset _load_cache_item then the loop of __getitem__.       *)
(***************************************************************************)
\* the stages a pipeline is made of
SplitStages == {D1, D2, R1}

\* every pipeline of at most MaxStages stages
SplitPipelines == UNION { [1..n -> SplitStages] : n \in 0..MaxStages }

p_prefix ==
    /\ s_which = "persistent" /\ s_stage = "start"
    /\ s_val' = pre_first_random_transform(s_ts, s_val)
    /\ s_pre' = RanBetween(s_val, s_val')
    /\ s_stage' = "pre"
    /\ UNCHANGED <<s_ts, s_which, s_post>>
    /\ UNCHANGED nonSplit

p_suffix ==
    /\ s_which = "persistent" /\ s_stage = "pre"
    /\ s_val' = first_random_and_beyond_transform(s_ts, s_val)
    /\ s_post' = RanBetween(s_val, s_val')
    /\ s_stage' = "post"
    /\ UNCHANGED <<s_ts, s_which, s_pre>>
    /\ UNCHANGED nonSplit

c_prefix ==
    /\ s_which = "cache" /\ s_stage = "start"
    /\ s_val' = load_cache_item(s_val, s_ts)
    /\ s_pre' = RanBetween(s_val, s_val')
    /\ s_stage' = "pre"
    /\ UNCHANGED <<s_ts, s_which, s_post>>
    /\ UNCHANGED nonSplit

c_suffix ==
    /\ s_which = "cache" /\ s_stage = "pre"
    /\ s_val' = cache_branch(s_ts, s_val).data
    /\ s_post' = RanBetween(s_val, s_val')
    /\ s_stage' = "post"
    /\ UNCHANGED <<s_ts, s_which, s_pre>>
    /\ UNCHANGED nonSplit

InitSplit ==
    /\ PersistentIdle
    /\ CacheIdle
    /\ ZipIdle
    /\ EngineIdle
    /\ s_ts \in SplitPipelines
    /\ s_which \in {"persistent", "cache"}
    /\ s_stage = "start"
    /\ s_val = RecA
    /\ s_pre = <<>>
    /\ s_post = <<>>

NextSplit == p_prefix \/ p_suffix \/ c_prefix \/ c_suffix

SpecSplit == InitSplit /\ [][NextSplit]_vars

(***************************************************************************)
(* ZipDataset and ArrayDataset.  A member dataset is known by its length,  *)
(* by the shape of the items it returns and by whether its transform is a  *)
(* Randomizable; the item it returns depends on the index and on the seed  *)
(* of its transform's random state.  __getitem__ is one step per member.   *)
(***************************************************************************)
\* an array: j-th object of the item of member m at index i under seed sd
Atom(m, i, sd, j) == Value("atom", <<m, i, sd, j>>, <<>>)

\* dataset[index] of member m: an object, a tuple of two, a list of one, or
\* a tuple holding an object and a tuple
MemberGet(members, m, i, sd) ==
    IF i >= members[m].len THEN Value("IndexError", <<>>, <<>>)
    ELSE CASE members[m].shape = "atom" -> Atom(m, i, sd, 1)
           [] members[m].shape = "tuple" ->
                  Value("tuple", <<>>, <<Atom(m, i, sd, 1), Atom(m, i, sd, 2)>>)
           [] members[m].shape = "list" -> Value("list", <<>>, <<Atom(m, i, sd, 1)>>)
           [] OTHER ->
                  Value("tuple", <<>>,
                        <<Atom(m, i, sd, 1), Value("tuple", <<>>, <<Atom(m, i, sd, 2)>>)>>)

\* mutant: every item counts as one element
to_list_single(x) == <<x>>

\* lines 331-332: list(x) if isinstance(x, (tuple, list)) else [x]
to_list(x) == IF x.tag \in {"tuple", "list"} THEN x.elems ELSE <<x>>

\* mutant: the length of the first member
ZipLen_first(members) == members[1].len

\* line 324: min([len(dataset) for dataset in self.datasets])
ZipLen(members) ==
    CHOOSE n \in { members[m].len : m \in 1..Len(members) } :
        \A m \in 1..Len(members) : n <= members[m].len

\* mutant: only the first member is looked at
SeedTarget_first(m) == m = 1 /\ z_members[m].rand

\* line 412: isinstance(dataset.transform, Randomizable)
SeedTarget(m) == z_members[m].rand

\* lines 323-325
z_construct ==
    /\ z_pc = "new"
    /\ z_len' = ZipLen(z_members)
    /\ z_pc' = "idle"
    /\ UNCHANGED <<z_kind, z_members, z_transform, z_index, z_k, z_data, z_seed, z_state,
                   z_used, z_draws, z_gets, z_out>>
    /\ UNCHANGED nonZip

\* ZipDataset.__getitem__(index), line 334
z_getitem(index) ==
    /\ z_kind = "zip" /\ z_pc = "idle" /\ z_members # <<>>
    /\ z_gets < MaxZGets
    /\ z_gets' = z_gets + 1
    /\ z_index' = index
    /\ z_k' = 1
    /\ z_data' = <<>>
    /\ z_used' = [m \in 1..Len(z_members) |-> -1]
    /\ z_draws' = 0
    /\ z_pc' = "zip"
    /\ UNCHANGED <<z_kind, z_members, z_transform, z_len, z_seed, z_state, z_out>>
    /\ UNCHANGED nonZip

\* ArrayDataset.__getitem__(index), line 410: self.randomize() draws sd
a_getitem(index, sd) ==
    /\ z_kind = "array" /\ z_pc = "idle" /\ z_members # <<>>
    /\ z_gets < MaxZGets
    /\ z_gets' = z_gets + 1
    /\ z_index' = index
    /\ z_seed' = sd
    /\ z_draws' = 1
    /\ z_k' = 1
    /\ z_used' = [m \in 1..Len(z_members) |-> -1]
    /\ z_pc' = "seed"
    /\ UNCHANGED <<z_kind, z_members, z_transform, z_len, z_data, z_state, z_out>>
    /\ UNCHANGED nonZip

\* lines 411-414: one turn of the loop over self.datasets, or its end and
\* the call of ZipDataset.__getitem__
a_set_seed ==
    /\ z_pc = "seed"
    /\ IF z_k <= Len(z_members)
       THEN /\ z_state' = IF SeedTarget(z_k) THEN [z_state EXCEPT ![z_k] = z_seed]
                          ELSE z_state
            /\ z_k' = z_k + 1
            /\ UNCHANGED <<z_pc, z_data>>
       ELSE /\ z_pc' = "zip"
            /\ z_k' = 1
            /\ z_data' = <<>>
            /\ UNCHANGED z_state
    /\ UNCHANGED <<z_kind, z_members, z_transform, z_len, z_index, z_seed, z_used,
                   z_draws, z_gets, z_out>>
    /\ UNCHANGED nonZip

\* lines 335-336: one turn of the loop; an exception of the member ends the
\* call
z_member ==
    /\ z_pc = "zip" /\ z_k <= Len(z_members)
    /\ LET x == MemberGet(z_members, z_k, z_index, z_state[z_k]) IN
       IF x.tag = "IndexError"
       THEN /\ z_out' = x
            /\ z_pc' = "idle"
            /\ UNCHANGED <<z_data, z_used, z_k>>
       ELSE /\ z_data' = z_data \o to_list(x)
            /\ z_used' = [z_used EXCEPT ![z_k] = z_state[z_k]]
            /\ z_k' = z_k + 1
            /\ UNCHANGED <<z_out, z_pc>>
    /\ UNCHANGED <<z_kind, z_members, z_transform, z_len, z_index, z_seed, z_state,
                   z_draws, z_gets>>
    /\ UNCHANGED nonZip

\* lines 337-339: the transform, if any, is called on the list
z_return ==
    /\ z_pc = "zip" /\ z_k > Len(z_members)
    /\ z_out' = IF z_transform # "none" THEN Value(z_transform, <<>>, z_data)
                ELSE Value("list", <<>>, z_data)
    /\ z_pc' = "idle"
    /\ UNCHANGED <<z_kind, z_members, z_transform, z_len, z_index, z_k, z_data, z_seed,
                   z_state, z_used, z_draws, z_gets>>
    /\ UNCHANGED nonZip

\* the members tried: of a ZipDataset, datasets of every shape of item; of an
\* ArrayDataset, the Dataset objects of line 404, with or without a
\* Randomizable transform
ZipMembers ==
    UNION { [1..n -> [len : 1..MaxZLen, shape : {"atom", "tuple", "list", "nested"},
                      rand : {FALSE}]] : n \in 1..MaxMembers }
ArrayMembers ==
    UNION { [1..n -> [len : 1..MaxZLen, shape : {"atom"}, rand : BOOLEAN]] :
              n \in 1..MaxMembers }

InitZip ==
    /\ PersistentIdle
    /\ CacheIdle
    /\ SplitIdle
    /\ EngineIdle
    /\ \/ z_kind = "zip" /\ z_members \in ZipMembers /\ z_transform \in {"none", "T"}
       \/ z_kind = "array" /\ z_members \in ArrayMembers /\ z_transform = "none"
    /\ z_len = 0
    /\ z_pc = "new"
    /\ z_index = 0
    /\ z_k = 0
    /\ z_data = <<>>
    /\ z_seed = 0
    /\ z_state = [m \in 1..Len(z_members) |-> 0]
    /\ z_used = [m \in 1..Len(z_members) |-> -1]
    /\ z_draws = 0
    /\ z_gets = 0
    /\ z_out = NoValue

NextZip ==
    \/ z_construct
    \/ \E i \in 0..MaxZLen : z_getitem(i)
    \/ \E i \in 0..MaxZLen, sd \in 1..MaxSeed : a_getitem(i, sd)
    \/ a_set_seed
    \/ z_member
    \/ z_return

SpecZip == InitZip /\ [][NextZip]_vars

(***************************************************************************)
(* Workflow: the handler _compare_metrics, run by the engine when an epoch *)
(* is completed, after the handlers of the metrics attached before it.     *)
(***************************************************************************)
\* mutant: a value equal to the best counts as a new best
Better_orEqual(v, best) == v >= best

\* line 108: current_val_metric > engine.state.best_metric
Better(v, best) == v > best

\* the key metric values tried
MetricValues == (0 - 2)..MaxMetric

\* an epoch is completed with key metric value v: the engine has counted
\* the epoch, the metric handlers (line 102) set state.metrics, then
\* _compare_metrics runs (lines 104-111)
epoch_completed(v) ==
    /\ Len(w_seen) < MaxEpochs
    /\ w_epoch' = w_epoch + 1
    /\ w_seen' = Append(w_seen, v)
    /\ IF w_key /\ Better(v, w_best)
       THEN /\ w_best' = v
            /\ w_best_epoch' = w_epoch'
       ELSE UNCHANGED <<w_best, w_best_epoch>>
    /\ UNCHANGED w_key
    /\ UNCHANGED nonWorkflow

InitWorkflow ==
    /\ PersistentIdle
    /\ CacheIdle
    /\ SplitIdle
    /\ ZipIdle
    /\ w_key \in BOOLEAN
    /\ w_epoch = 0
    /\ w_seen = <<>>
    /\ w_best = -1
    /\ w_best_epoch = -1
    /\ l_ckpt = [bare |-> TRUE, state |-> 0, objs |-> [k \in Keys |-> 0]]
    /\ l_targets = {}
    /\ l_wrapped = [k \in Keys |-> FALSE]
    /\ l_ref = [k \in Keys |-> "object"]
    /\ l_state = [k \in Keys |-> 0]
    /\ l_pc = "done"
    /\ l_iters = 0
    /\ l_loaded = -1
    /\ l_err = "none"

NextWorkflow == \E v \in MetricValues : epoch_completed(v)

SpecWorkflow == InitWorkflow /\ [][NextWorkflow]_vars

(***************************************************************************)
(* CheckpointLoader.  A checkpoint file holds either the state of one      *)
(* object (bare) or a dict from keys to states.  A state is known by its   *)
(* number; its own keys are parameter names (StateFields), which are not   *)
(* keys of a load_dict.                                                    *)
(***************************************************************************)
\* the keys of a state dict
StateFields == {"weight"}

\* line 57: key in checkpoint
InCheckpoint(key, ckpt) ==
    IF ckpt.bare THEN key \in StateFields ELSE ckpt.objs[key] # 0

\* mutant: a checkpoint is never wrapped
Wrapped_never(ckpt, targets) == ckpt

\* lines 55-58: a checkpoint without the only key of load_dict is taken for
\* the state of that object
Wrapped(ckpt, targets) ==
    IF Cardinality(targets) = 1
    THEN LET key == CHOOSE k \in targets : TRUE IN
         IF ~InCheckpoint(key, ckpt)
         THEN [bare |-> FALSE, state |-> 0,
               objs |-> [k \in Keys |-> IF k = key THEN ckpt.state ELSE 0]]
         ELSE ckpt
    ELSE ckpt

\* lines 44-45: load_dict[k] = v.module if v has a .module
Unwrap(wrapped) == IF wrapped THEN "module" ELSE "object"

\* CheckpointLoader.__init__ (lines 38-46)
l_init ==
    /\ l_pc = "new"
    /\ l_ref' = [k \in Keys |-> IF k \in l_targets THEN Unwrap(l_wrapped[k]) ELSE l_ref[k]]
    /\ l_pc' = "built"
    /\ UNCHANGED <<l_ckpt, l_targets, l_wrapped, l_state, l_iters, l_loaded, l_err>>
    /\ UNCHANGED nonLoader

\* attach (lines 48-51)
l_attach ==
    /\ l_pc = "built"
    /\ l_pc' = "attached"
    /\ UNCHANGED <<l_ckpt, l_targets, l_wrapped, l_ref, l_state, l_iters, l_loaded, l_err>>
    /\ UNCHANGED nonLoader

\* engine.run fires Events.STARTED: __call__ (lines 53-61).
\* Checkpoint.load_objects raises ValueError if a key of to_load is not in
\* the checkpoint, and calls load_state_dict of each object otherwise; a
\* parallel wrapper refuses the state of its module (other parameter names).
l_call ==
    /\ l_pc = "attached"
    /\ LET ckpt == Wrapped(l_ckpt, l_targets) IN
       IF ckpt.bare \/ \E k \in l_targets : ckpt.objs[k] = 0
       THEN /\ l_err' = "ValueError"
            /\ l_pc' = "done"
            /\ UNCHANGED <<l_state, l_loaded>>
       ELSE IF \E k \in l_targets : l_wrapped[k] /\ l_ref[k] = "object"
       THEN /\ l_err' = "RuntimeError"
            /\ l_pc' = "done"
            /\ UNCHANGED <<l_state, l_loaded>>
       ELSE /\ l_state' = [k \in Keys |-> IF k \in l_targets THEN ckpt.objs[k]
                                          ELSE l_state[k]]
            /\ l_loaded' = l_iters
            /\ l_pc' = "running"
            /\ UNCHANGED l_err
    /\ UNCHANGED <<l_ckpt, l_targets, l_wrapped, l_ref, l_iters>>
    /\ UNCHANGED nonLoader

\* one iteration of the run, or its end
l_iteration ==
    /\ l_pc = "running"
    /\ IF l_iters < MaxIters
       THEN l_iters' = l_iters + 1 /\ UNCHANGED l_pc
       ELSE l_pc' = "done" /\ UNCHANGED l_iters
    /\ UNCHANGED <<l_ckpt, l_targets, l_wrapped, l_ref, l_state, l_loaded, l_err>>
    /\ UNCHANGED nonLoader

\* the checkpoint files tried: the state of one object, or a dict with a
\* state for one or for both keys
Checkpoints ==
    { [bare |-> TRUE, state |-> st, objs |-> [k \in Keys |-> 0]] : st \in 1..MaxStates }
    \cup { [bare |-> FALSE, state |-> 0, objs |-> o] :
              o \in { f \in [Keys -> 0..MaxStates] : \E k \in Keys : f[k] # 0 } }

InitLoader ==
    /\ PersistentIdle
    /\ CacheIdle
    /\ SplitIdle
    /\ ZipIdle
    /\ w_key = FALSE
    /\ w_epoch = 0
    /\ w_seen = <<>>
    /\ w_best = -1
    /\ w_best_epoch = -1
    /\ l_ckpt \in Checkpoints
    /\ l_targets \in (SUBSET Keys) \ {{}}
    /\ l_wrapped \in [Keys -> BOOLEAN]
    /\ \A k \in Keys \ l_targets : ~l_wrapped[k]
    /\ l_ref = [k \in Keys |-> "object"]
    /\ l_state = [k \in Keys |-> 0]
    /\ l_pc = "new"
    /\ l_iters = 0
    /\ l_loaded = -1
    /\ l_err = "none"

NextLoader == l_init \/ l_attach \/ l_call \/ l_iteration

SpecLoader == InitLoader /\ [][NextLoader]_vars

(***************************************************************************)
(* What the stages of a pipeline are, stated without running the code:     *)
(* used to say what a call should have computed.                           *)
(***************************************************************************)
PrefixNames(ts) == StageNames(ts, 1, PrefixLen(ts, 1))
SuffixNames(ts) == StageNames(ts, PrefixLen(ts, 1) + 1, Len(ts))
AllNames(ts) == StageNames(ts, 1, Len(ts))

\* the stages before the first random one applied to record r
DirectPrefix(ts, r) == [r EXCEPT !.applied = @ \o PrefixNames(ts)]

\* r with the key "cache" set to True
Marked(r) == [r EXCEPT !.cache = "true"]

NoneDead == \A p \in Proc : pc[p] # "dead"
AllIdle == \A p \in Proc : pc[p] = "idle"
SamePipeline == \A p, q \in Proc : transform[p] = transform[q]

(***************************************************************************)
(* PersistentDataset: the claims.                                          *)
(***************************************************************************)

\* C1: with two processes running __getitem__ on the same cache directory and
\* no process killed, no torch.load of a canonical cache file ever reads a
\* file that is only partially written.
C1_NoTornRead == NoneDead => tornRead = FALSE

\* C2: when two processes miss on the same fingerprint concurrently (none
\* killed), every call that took the miss path returns without raising, and
\* once both are done the canonical file holds the complete prefix result.
C2_RaceHarmless ==
    NoneDead =>
        \A p \in Proc : \A k \in 1..Len(log[p]) :
            LET e == log[p][k] IN
            (e.how = "miss" /\ e.hashfile # NoFile) =>
                /\ e.err = "none"
                /\ AllIdle => FileContent(e.hashfile) = Serialize(e.pre)

\* C3: after a process was killed in the miss path, the canonical file of the
\* fingerprint it was caching is absent or complete, and the first later call
\* for an equal record misses, runs every stage once in order, leaves a
\* complete canonical file holding its prefix result and returns the full
\* pipeline's result.
C3_KillThenRecompute ==
    \A p \in Proc :
        (pc[p] = "dead" /\ hashfile[p] # NoFile) =>
            /\ \/ ~is_file(hashfile[p])
               \/ Complete(FileContent(hashfile[p]))
            /\ \A q \in Proc \ {p} : \A k \in 1..Len(log[q]) :
                   LET e == log[q][k] IN
                   (e.raw = raw[p] /\ \A j \in 1..(k - 1) : log[q][j].raw # raw[p]) =>
                       /\ e.how = "miss"
                       /\ e.err = "none"
                       /\ e.ran = AllNames(transform[q])
                       /\ e.pre = Marked(DirectPrefix(transform[q], e.raw))
                       /\ FileContent(e.hashfile) = Serialize(e.pre)
                       /\ e.post.src = e.raw.src
                       /\ e.post.applied = AllNames(transform[q])

\* C3 witness: a process was killed in its first call after writing part of
\* the temp file, and another process has since missed on an equal record.
C3_Witness ==
    \E p \in Proc : \E q \in Proc \ {p} :
        /\ pc[p] = "dead" /\ Len(log[p]) = 0 /\ off[p] \in 1..(NChunks - 1)
        /\ \E k \in 1..Len(log[q]) :
               /\ log[q][k].raw = raw[p]
               /\ log[q][k].how = "miss"
               /\ log[q][k].hashfile # NoFile

\* C4: with an existing cache directory and one pipeline, two calls of one
\* dataset for the same index hand the same value to the suffix stages.
C4_SamePreRandom ==
    (SamePipeline /\ cacheDir = "dir") =>
        \A p \in Proc : \A j, k \in 1..Len(log[p]) :
            (j < k /\ log[p][j].index = log[p][k].index) =>
                log[p][j].pre = log[p][k].pre

\* C4 witness: a miss that cached a non-empty prefix, then a hit on the same index.
C4_Witness ==
    /\ SamePipeline /\ cacheDir = "dir"
    /\ \E p \in Proc :
           /\ Len(log[p]) >= 2
           /\ log[p][1].index = log[p][2].index
           /\ log[p][1].how = "miss" /\ log[p][2].how = "hit"
           /\ PrefixNames(transform[p]) # <<>>

\* C5 as stated: the value loaded back from the cache is identical to the
\* prefix applied directly to the record (no field added, removed or changed).
C5_RoundTripIdentical ==
    SamePipeline =>
        \A p \in Proc : \A k \in 1..Len(log[p]) :
            log[p][k].how = "hit" =>
                log[p][k].pre = DirectPrefix(transform[p], log[p][k].raw)

\* C5 amended: the value loaded back from the cache is the prefix applied
\* directly to the record with the key "cache" set to True, and is identical
\* to it in every other field.
C5_RoundTripMarked ==
    SamePipeline =>
        \A p \in Proc : \A k \in 1..Len(log[p]) :
            log[p][k].how = "hit" =>
                log[p][k].pre = Marked(DirectPrefix(transform[p], log[p][k].raw))

\* C5 witness: a hit on a record without a "cache" key, with a non-empty prefix.
C5_Witness ==
    /\ SamePipeline
    /\ \E p \in Proc : \E k \in 1..Len(log[p]) :
           /\ log[p][k].how = "hit"
           /\ log[p][k].raw.cache = "absent"
           /\ PrefixNames(transform[p]) # <<>>
           /\ log[p][k].pre # DirectPrefix(transform[p], log[p][k].raw)

\* C6: without a usable cache directory every call returns without error,
\* computes no cache file name, creates no file, runs every stage of the
\* pipeline in order on the raw record and returns that result.
C6_NoCacheDirRecomputes ==
    cacheDir # "dir" =>
        /\ dirEntries = {}
        /\ \A p \in Proc : \A k \in 1..Len(log[p]) :
               LET e == log[p][k] IN
               /\ e.err = "none"
               /\ e.hashfile = NoFile
               /\ e.ran = AllNames(transform[p])
               /\ e.post = Compose(transform[p], e.raw)

\* C7: the cache key ignores the pipeline.  A call that finds an entry runs
\* only its own suffix stages, on the value another call computed with that
\* call's prefix; and no record content is ever cached twice, whatever the
\* pipelines of the datasets that ask for it.
C7_StaleHit ==
    /\ \A q \in Proc : \A k \in 1..Len(log[q]) :
           LET e == log[q][k] IN
           e.how = "hit" =>
               /\ e.err = "none"
               /\ e.ran = SuffixNames(transform[q])
               /\ e.post = [e.pre EXCEPT !.applied = @ \o SuffixNames(transform[q])]
               /\ \E p \in Proc : \E j \in 1..Len(log[p]) :
                      /\ log[p][j].how = "miss"
                      /\ md5(log[p][j].raw) = md5(e.raw)
                      /\ e.pre = Marked(DirectPrefix(transform[p], log[p][j].raw))
    /\ \A p, q \in Proc : \A j \in 1..Len(log[p]) : \A k \in 1..Len(log[q]) :
           ( /\ <<p, j>> # <<q, k>>
             /\ log[p][j].how = "miss" /\ log[q][k].how = "miss"
             /\ log[p][j].hashfile # NoFile /\ log[q][k].hashfile # NoFile )
           => md5(log[p][j].raw) # md5(log[q][k].raw)

\* C7 witness: a hit whose value was computed with another prefix than the
\* one the reading dataset would have run.
C7_Witness ==
    \E q \in Proc : \E p \in Proc \ {q} : \E k \in 1..Len(log[q]) : \E j \in 1..Len(log[p]) :
        /\ log[q][k].how = "hit"
        /\ log[p][j].how = "miss"
        /\ log[p][j].hashfile = log[q][k].hashfile
        /\ PrefixNames(transform[p]) # PrefixNames(transform[q])
        /\ log[q][k].pre # Marked(DirectPrefix(transform[q], log[q][k].raw))
        /\ log[q][k].err = "none"

\* C8: once a canonical entry exists no step removes it or changes its
\* content, and a call that starts on a record with that fingerprint loads
\* the entry and runs no prefix stage.
C8_EntryStable ==
    [][ /\ \A e \in dirEntries :
               e.path.ext = "pt" =>
                   \E e2 \in dirEntries' :
                       e2.path = e.path /\ inodes'[e2.ino] = inodes[e.ino]
        /\ \A p \in Proc :
               ( /\ pc[p] = "idle" /\ pc'[p] # "idle"
                 /\ cacheDir = "dir"
                 /\ NotMarkedCached(raw'[p])
                 /\ is_file(HashPath(raw'[p])) )
               => pc'[p] = "load" /\ how'[p] = "hit"
        /\ \A p \in Proc :
               (how'[p] = "hit" /\ pc'[p] # "idle") => ran'[p] = <<>>
      ]_vars

\* C8 witness: one entry written by a miss and then loaded by two later calls.
C8_Witness ==
    \E p \in Proc : \E q \in Proc \ {p} :
        /\ Len(log[p]) >= 2 /\ Len(log[q]) >= 1
        /\ log[p][1].how = "miss" /\ log[p][1].hashfile # NoFile
        /\ log[p][2].how = "hit" /\ log[p][2].hashfile = log[p][1].hashfile
        /\ log[q][1].how = "hit" /\ log[q][1].hashfile = log[p][1].hashfile
        /\ log[p][2].ran = SuffixNames(transform[p])
        /\ Complete(FileContent(log[p][1].hashfile))

(***************************************************************************)
(* CacheDataset: the claims.                                               *)
(***************************************************************************)

\* C9: when __init__ has finished, slot i holds the stages before the first
\* random one applied in order to record i, for every i below cache_num,
\* whatever num_workers is (0: serial) and however the threads interleave.
C9_SlotsArePrefix ==
    phase = "ready" =>
        /\ cache_num > 0 => Len(cache) = cache_num
        /\ \A i \in 0..(cache_num - 1) :
               cache[i + 1] = DirectPrefix(c_transform, c_data[i + 1])

\* C9 witness: a warm-up by two threads has ended, with at least two slots
\* and a non-empty prefix.
C9_Witness ==
    /\ phase = "ready"
    /\ c_args.num_workers = 2
    /\ cache_num >= 2
    /\ PrefixNames(c_transform) # <<>>
    /\ \A i \in 0..(cache_num - 1) : cache[i + 1] # NoRec

\* C10: in the parallel warm-up a thread is between the read and the report
\* of the counter only while it holds the lock, the values reported are
\* 1, 2, ... in this order, and when the warm-up has ended the counter and
\* the number of reports equal cache_num.
C10_NoLostUpdate ==
    /\ \A w \in 1..MaxWorkers : wpc[w] \in {"read", "write", "report"} => thread_lock = w
    /\ reported = [k \in 1..Len(reported) |-> k]
    /\ (phase = "ready" /\ cache_num > 0) => Len(reported) = cache_num
    /\ (phase = "ready" /\ cache_num > 0 /\ c_args.num_workers > 0) =>
           item_processed = cache_num

\* C10 witness: a parallel warm-up with two threads and at least two slots
\* has ended with every increment counted.
C10_Witness ==
    /\ phase = "ready"
    /\ c_args.num_workers >= 2
    /\ cache_num >= 2
    /\ item_processed = cache_num
    /\ reported = [k \in 1..cache_num |-> k]

GetStep == c_log' # c_log

LastGet == c_log'[Len(c_log')]

\* C12: a call with 0 <= index < cache_num starts from the value slot index
\* has at the call, takes the branch that reads no raw record, and runs the
\* stages from the first random one onward, in order, each once, and no
\* stage before it.
C12_CachedRunsSuffix ==
    [][(GetStep /\ 0 <= LastGet.index /\ LastGet.index < cache_num) =>
          /\ LastGet.err = "none"
          /\ LastGet.branch = "cache"
          /\ LastGet.start = cache[LastGet.index + 1]
          /\ LastGet.ran = SuffixNames(c_transform)
          /\ LastGet.post = [LastGet.start EXCEPT
                                !.applied = @ \o SuffixNames(c_transform)]]_vars

\* C12 witness: a cached index has been read, under a pipeline with stages
\* both before and from the first random one.
C12_Witness ==
    \E k \in 1..Len(c_log) :
        /\ 0 <= c_log[k].index /\ c_log[k].index < cache_num
        /\ PrefixNames(c_transform) # <<>>
        /\ c_log[k].ran # <<>>
        /\ c_log[k].start.applied = PrefixNames(c_transform)

\* C13: a call with cache_num <= index < length runs every stage in order on
\* the raw record, which is what a plain Dataset returns for that index, and
\* leaves the cache as it is.
C13_UncachedRunsAll ==
    [][(GetStep /\ cache_num <= LastGet.index /\ LastGet.index < Len(c_data)) =>
          /\ LastGet.err = "none"
          /\ LastGet.branch = "full"
          /\ LastGet.start = c_data[LastGet.index + 1]
          /\ LastGet.ran = AllNames(c_transform)
          /\ LastGet.post = [c_data[LastGet.index + 1] EXCEPT
                                !.applied = @ \o AllNames(c_transform)]
          /\ cache' = cache]_vars

\* C13 witness: an index beyond a non-empty cache has been read, under a
\* pipeline with stages before its first random one.
C13_Witness ==
    \E k \in 1..Len(c_log) :
        /\ cache_num >= 1
        /\ cache_num <= c_log[k].index /\ c_log[k].index < Len(c_data)
        /\ PrefixNames(c_transform) # <<>>
        /\ c_log[k].ran = AllNames(c_transform)

\* C14: with cache_rate = 0 there is no warm-up, and every call, whatever
\* its index, ends as the call of a plain Dataset with the same data and
\* pipeline ends: the same value or the same exception.
C14_RateZeroIsPlain ==
    (phase = "ready" /\ c_data # <<>> /\ c_args.cache_rate = 0) =>
        /\ cache_num = 0
        /\ reported = <<>>
        /\ \A k \in 1..Len(c_log) :
               Result(c_log[k].err, c_log[k].post) =
                   Dataset_getitem(c_data, c_transform, c_log[k].index)

\* C15: once constructed, the number of slots does not change and every
\* slot a call has started from still holds the value the call found there.
C15_SlotsImmutable ==
    phase = "ready" =>
        /\ cache_num > 0 => Len(cache) = cache_num
        /\ \A k \in 1..Len(c_log) :
               (c_log[k].branch = "cache" /\ c_log[k].err = "none") =>
                   cache[PyIndex(cache, c_log[k].index)] = c_log[k].start

(***************************************************************************)
(* The split of a pipeline: the claim.                                     *)
(***************************************************************************)

\* C17: the stages run by the prefix operation are the stages before the
\* first random one (none of them random, and the next stage, if any,
\* random); the stages run by the suffix operation are all the others,
\* whatever their tag; together, in this order, they are the whole list.
C17_SplitPartitions ==
    /\ s_stage \in {"pre", "post"} =>
           /\ Len(s_pre) <= Len(s_ts)
           /\ s_pre = [k \in 1..Len(s_pre) |-> s_ts[k].name]
           /\ \A k \in 1..Len(s_pre) : ~s_ts[k].rand
           /\ Len(s_pre) < Len(s_ts) => s_ts[Len(s_pre) + 1].rand
    /\ s_stage = "post" =>
           /\ Len(s_pre) + Len(s_post) = Len(s_ts)
           /\ s_pre \o s_post = [k \in 1..Len(s_ts) |-> s_ts[k].name]
           /\ s_val.applied = [k \in 1..Len(s_ts) |-> s_ts[k].name]

\* C17 witness: both parts have run on a pipeline with a deterministic
\* stage after its first random one.
C17_Witness ==
    /\ s_stage = "post"
    /\ s_pre # <<>>
    /\ \E k \in 2..Len(s_ts) : s_ts[k - 1].rand /\ ~s_ts[k].rand

(***************************************************************************)
(* ZipDataset and ArrayDataset: the claims.                                *)
(***************************************************************************)
\* what a member's item contributes to the result: its elements if it is a
\* tuple or a list, else itself
Contribution(x) == IF x.tag = "tuple" \/ x.tag = "list" THEN x.elems ELSE <<x>>

\* the contributions of members 1..m at index i, in member order
RECURSIVE Zipped(_, _, _, _)
Zipped(members, state, i, m) ==
    IF m = 0 THEN <<>>
    ELSE Zipped(members, state, i, m - 1)
             \o Contribution(MemberGet(members, m, i, state[m]))

\* a call has ended with a result
Returned == z_pc = "idle" /\ z_gets > 0 /\ z_out.tag # "IndexError"

\* C16: in one ArrayDataset call one seed is drawn; while the members
\* compute their items every member with a Randomizable transform has that
\* seed set, and every such member that has computed its item did so under
\* that seed.
C16_OneSeedForAll ==
    (z_kind = "array" /\ z_gets > 0) =>
        /\ z_draws = 1
        /\ z_pc = "zip" =>
               \A m \in 1..Len(z_members) : z_members[m].rand => z_state[m] = z_seed
        /\ \A m \in 1..Len(z_members) :
               z_members[m].rand => z_used[m] \in {-1, z_seed}
        /\ Returned =>
               \A m \in 1..Len(z_members) : z_members[m].rand => z_used[m] = z_seed

\* C16 witness: a second call has returned, in which two members with a
\* Randomizable transform each computed their item under the call's seed.
C16_Witness ==
    /\ z_kind = "array" /\ Returned /\ z_gets = 2
    /\ Len(z_members) >= 2
    /\ z_members[1].rand /\ z_members[2].rand
    /\ z_used[1] = z_seed /\ z_used[2] = z_seed

\* C18: the length of a ZipDataset is the least of its members' lengths.
C18_LenIsMin ==
    (z_pc # "new" /\ z_members # <<>>) =>
        /\ \A m \in 1..Len(z_members) : z_len <= z_members[m].len
        /\ \E m \in 1..Len(z_members) : z_len = z_members[m].len

\* C18 witness: a ZipDataset whose second member is shorter than its first.
C18_Witness ==
    /\ z_pc # "new" /\ Len(z_members) >= 2
    /\ z_members[2].len < z_members[1].len
    /\ z_len = z_members[2].len

\* C19: a call with 0 <= index < length returns the contributions of the
\* members at that index, in member order, as one list, to which the
\* transform, if there is one, has been applied once.
C19_ZipConcat ==
    (Returned /\ z_index < z_len) =>
        LET all == Zipped(z_members, z_state, z_index, Len(z_members)) IN
        z_out = IF z_transform = "none" THEN Value("list", <<>>, all)
                ELSE Value("T", <<>>, all)

\* C19 witness: a call has returned under a transform, one member's item a
\* tuple holding a tuple and another's a single object.
C19_Witness ==
    /\ Returned /\ z_index < z_len /\ z_transform = "T"
    /\ \E m \in 1..Len(z_members) : z_members[m].shape = "nested"
    /\ \E m \in 1..Len(z_members) : z_members[m].shape = "atom"
    /\ Len(z_out.elems) = 3

(***************************************************************************)
(* The caller's data: the claim.                                           *)
(***************************************************************************)

\* C20: no call changes the caller's data: the record a PersistentDataset
\* call read at its index is still, whatever calls followed, the record
\* found at that index, whatever the pipeline.
C20_SourceUnchanged ==
    \A p \in Proc : \A k \in 1..Len(log[p]) :
        data[p][log[p][k].index + 1] = log[p][k].raw

(***************************************************************************)
(* PersistentDataset used by one process: failures, markers, files.        *)
(***************************************************************************)
\* a call of process 1 ends in this step: its record is the last of log[1]
\* in the next state
CallEnds == log'[1] # log[1]

LastCall == log'[1][Len(log'[1])]

C22_PrefixFailureSurfaces ==
    [][/\ (CallEnds /\ LastCall.err = "stage") =>
             /\ pc'[1] = "idle"
             /\ LastCall.how = "miss"
             /\ Len(LastCall.ran) <= Len(PrefixNames(transform[1]))
             /\ LastCall.ran = SubSeq(PrefixNames(transform[1]), 1, Len(LastCall.ran))
             /\ dirEntries' = dirEntries
             /\ ~\E d \in dirEntries' : d.path = HashPath(LastCall.raw)
       /\ (CallEnds /\ Len(log[1]) > 0 /\ log[1][Len(log[1])].err = "stage"
              /\ LastCall.raw = log[1][Len(log[1])].raw) =>
             /\ LastCall.how = "miss"
             /\ \/ LastCall.err = "stage"
                \/ LastCall.err = "none" /\ LastCall.ran = AllNames(transform[1])]_vars

\* C22 witness: with an existing cache directory, a call failed at the second
\* stage of the prefix, and the next call on an equal record recomputed and
\* returned.
C22_Witness ==
    /\ cacheDir = "dir"
    /\ transform[1] = <<D1, DF>>
    /\ Len(log[1]) = 2
    /\ log[1][1].err = "stage" /\ log[1][1].ran = <<"D1", "DF">>
    /\ log[1][2].raw = log[1][1].raw
    /\ log[1][2].err = "none" /\ log[1][2].how = "miss"

\* C23: a value the cache path produced (stored on a miss or loaded on a
\* hit) carries the marker the check tests: a call whose record is such a
\* value passes the check without computing a file name, running a prefix
\* stage or writing a file, and hands the value on unchanged.
C23_MarkerRoundTrip ==
    \A j, k \in 1..Len(log[1]) :
        (/\ j < k
         /\ log[1][j].err = "none" /\ log[1][j].hashfile # NoFile
         /\ log[1][j].how \in {"miss", "hit"}
         /\ log[1][k].raw = log[1][j].pre) =>
            /\ log[1][k].how = "skip"
            /\ log[1][k].hashfile = NoFile
            /\ log[1][k].pre = log[1][k].raw

\* C24: two writes in progress at the same time, also two writes for the
\* same file name by different processes, go to different temporary paths.
C24_TempPathsDistinct ==
    LET \* the process has opened its temporary file and not yet renamed it
        Writing(p) == pc[p] \in {"write", "rename"}
    IN  \A p, q \in Proc :
            (p # q /\ Writing(p) /\ Writing(q)) =>
                with_suffix_temp(hashfile[p]) # with_suffix_temp(hashfile[q])

\* C25: whatever number of calls is made on one dataset, the calls for one
\* index create at most one canonical file, and the directory never holds
\* more canonical files than the source, as given, has distinct records.
C25_OneFilePerRecord ==
    LET \* the canonical cache files of the directory
        CanonicalFiles == { d \in dirEntries : d.path.ext = "pt" }
        \* the canonical files the calls of process 1 for index i created
        CreatedFor(i) ==
            { log[1][k].hashfile : k \in { n \in 1..Len(log[1]) :
                  /\ log[1][n].index = i
                  /\ log[1][n].how = "miss" /\ log[1][n].err = "none"
                  /\ log[1][n].hashfile # NoFile } }
    IN  /\ \A i \in 0..(Len(source0) - 1) : Cardinality(CreatedFor(i)) <= 1
        /\ Cardinality(CanonicalFiles)
               <= Cardinality({ source0[k] : k \in 1..Len(source0) })

\* C26: whatever keys the raw record has, "cached" and "cache" included, a
\* call that returns hands back the record with every stage of the pipeline
\* applied once, in order: the prefix stages in this call or in the call
\* that wrote the entry, then the suffix stages.
C26_EveryStageOnce ==
    \A k \in 1..Len(log[1]) :
        log[1][k].err = "none" =>
            /\ log[1][k].post.src = log[1][k].raw.src
            /\ log[1][k].post.applied = AllNames(transform[1])
            /\ log[1][k].ran = IF log[1][k].how = "hit" THEN SuffixNames(transform[1])
                               ELSE AllNames(transform[1])

(***************************************************************************)
(* CacheDataset: indices and construction.                                 *)
(***************************************************************************)

\* C27: for every index a plain Dataset accepts, negative ones included, a
\* call returns the pipeline applied to data[index], the record the plain
\* Dataset uses, whatever cache_num is between 0 and the length.
C27_SameRecordAsPlain ==
    \A k \in 1..Len(c_log) :
        PyIndex(c_data, c_log[k].index) # 0 =>
            /\ c_log[k].err = "none"
            /\ c_log[k].post.src = c_data[PyIndex(c_data, c_log[k].index)].src

\* C28: the constructor returns only when the warm-up is over: at its
\* return every slot is set and as many items have been computed as there
\* are slots; a slot is written only while it is unset, so each is written
\* once; no call ever starts from an unset slot; and once a prefix
\* computation has failed, in the loop or in a pool thread, the constructor
\* does not return, it raises.
C28_ReturnsWarm ==
    [][/\ phase' = "ready" =>
             /\ \A i \in 1..Len(cache') : cache'[i] # NoRec
             /\ cache_num' > 0 => Len(cache') = cache_num' /\ Len(reported') = cache_num'
       /\ phase # "ready" =>
             \A i \in 1..Len(cache) : cache'[i] # cache[i] => cache[i] = NoRec
       /\ (GetStep /\ LastGet.branch = "cache" /\ LastGet.err = "none") =>
             LastGet.start # NoRec
       /\ phase \in {"failing", "failed"} => phase' \in {"failing", "failed"}]_vars

\* C28 witness: a warm-up by two threads has ended by the constructor
\* raising, one slot set and another not.
C28_Witness ==
    /\ phase = "failed"
    /\ c_args.num_workers = 2
    /\ \E i, j \in 1..Len(cache) : cache[i] = NoRec /\ cache[j] # NoRec

(***************************************************************************)
(* Workflow and CheckpointLoader: the claims.                              *)
(***************************************************************************)
\* C29: with a key metric, after each completed epoch best_metric is the
\* largest of -1 and the values seen, it has not decreased,
\* best_metric_epoch is the first epoch that reached it, or -1 while no
\* value has exceeded -1, and a value that only equals the best changes
\* neither field.
C29_BestMetric ==
    [][LET \* the largest of a non-empty set of numbers
           MaxOf(S) == CHOOSE m \in S : \A x \in S : x <= m
           \* the first epoch at which value b was the key metric
           FirstReached(seen, b) ==
               CHOOSE k \in 1..Len(seen) :
                   seen[k] = b /\ \A j \in 1..(k - 1) : seen[j] # b
       IN  w_key =>
             /\ w_best' = MaxOf({-1} \cup { w_seen'[k] : k \in 1..Len(w_seen') })
             /\ w_best' >= w_best
             /\ w_best_epoch' = IF \A k \in 1..Len(w_seen') : w_seen'[k] <= -1 THEN -1
                                ELSE FirstReached(w_seen', w_best')
             /\ w_seen'[Len(w_seen')] = w_best =>
                    w_best' = w_best /\ w_best_epoch' = w_best_epoch]_vars

\* C29 witness: the best value came at the second epoch, after a lower one,
\* and came again at the third.
C29_Witness ==
    /\ w_key /\ Len(w_seen) = 3
    /\ w_seen[1] = 0 /\ w_seen[2] = 1 /\ w_seen[3] = 1
    /\ w_best = 1 /\ w_best_epoch = 2

====
